---- MODULE Spec2Model ----
(***************************************************************************)
(* Model of the productionFlow-3D client-side store (zustand store         *)
(* useMachineStore in src/src/api/productionApi.ts): the machine and       *)
(* connection collections, the current selection, and the mutation         *)
(* operations that user edits, the simulator and the feed call.            *)
(***************************************************************************)
EXTENDS Integers, Sequences, FiniteSets, TLC

\* ------------------------------------------------------------------ bounds
\* number of store operations in one behaviour
MaxSteps == 3
\* largest value the millisecond clock Date.now() takes
MaxTime == 1
\* number of operations (store operations, simulator calls and ticks) in one
\* behaviour of the simulator
MaxSimSteps == 4
\* longest machine list for which a tick draws every combination of random
\* outcomes; on a longer list one machine at a time departs from the quiet
\* outcome
MaxFullDraws == 3
\* number of adapter events of the push adapter in a behaviour
MaxWsSteps == 14
\* number of adapter events of the polling adapter in a behaviour
MaxPollSteps == 6
\* number of messages the push adapter receives in a behaviour
MaxWsMessages == 1

\* ------------------------------------------------------- values and inputs
\* the null of `selectedMachineId: string | null`
Null == "<null>"

\* enumeration MachineStatus
MachineStatus == {"active", "idle", "stopped", "maintenance"}

\* ids of the initial data set used as arguments, and an id no machine has
M1 == "machine-001"
M2 == "machine-002"
GhostId == "machine-999"
GhostConnId == "conn-999"

\* outcomes of Math.random().toString(36).substr(2, 9)
RandStrs == {"k3x9q0a1b", "z81hd72ms"}

\* `machine-${Date.now()}-${Math.random().toString(36).substr(2, 9)}`
MachineId(t, r) == "machine-" \o ToString(t) \o "-" \o r

\* `conn-${Date.now()}-${Math.random().toString(36).substr(2, 9)}`
ConnId(t, r) == "conn-" \o ToString(t) \o "-" \o r

\* loadInitialData: the fixed machines
initialMachines ==
  << [id |-> "machine-001", name |-> "Raw Material Feeder", status |-> "active",
      throughput |-> 120, position |-> <<-6, 0, -4>>, type |-> "conveyor",
      description |-> "Feeder untuk bahan baku awal"],
     [id |-> "machine-002", name |-> "Pre-Processor A", status |-> "active",
      throughput |-> 115, position |-> <<-2, 0, -4>>, type |-> "processor",
      description |-> "Pra-pemrosesan bahan"],
     [id |-> "machine-003", name |-> "Main Processor", status |-> "active",
      throughput |-> 110, position |-> <<2, 0, -4>>, type |-> "processor",
      description |-> "Unit pemrosesan utama"],
     [id |-> "machine-004", name |-> "Quality Control", status |-> "idle",
      throughput |-> 0, position |-> <<6, 0, -4>>, type |-> "quality",
      description |-> "Pemeriksaan kualitas"],
     [id |-> "machine-005", name |-> "Packaging Unit", status |-> "active",
      throughput |-> 105, position |-> <<6, 0, 0>>, type |-> "packer",
      description |-> "Unit pengemasan"],
     [id |-> "machine-006", name |-> "Secondary Feeder", status |-> "stopped",
      throughput |-> 0, position |-> <<-6, 0, 0>>, type |-> "conveyor",
      description |-> "Feeder sekunder"],
     [id |-> "machine-007", name |-> "Auxiliary Processor", status |-> "maintenance",
      throughput |-> 0, position |-> <<-2, 0, 0>>, type |-> "processor",
      description |-> "Processor bantuan"],
     [id |-> "machine-008", name |-> "Final Inspection", status |-> "active",
      throughput |-> 100, position |-> <<2, 0, 0>>, type |-> "quality",
      description |-> "Inspeksi akhir"] >>

\* loadInitialData: the fixed connections
initialConnections ==
  << [id |-> "conn-001", fromMachineId |-> "machine-001", toMachineId |-> "machine-002"],
     [id |-> "conn-002", fromMachineId |-> "machine-002", toMachineId |-> "machine-003"],
     [id |-> "conn-003", fromMachineId |-> "machine-003", toMachineId |-> "machine-004"],
     [id |-> "conn-004", fromMachineId |-> "machine-004", toMachineId |-> "machine-005"],
     [id |-> "conn-005", fromMachineId |-> "machine-006", toMachineId |-> "machine-007"],
     [id |-> "conn-006", fromMachineId |-> "machine-007", toMachineId |-> "machine-008"],
     [id |-> "conn-007", fromMachineId |-> "machine-008", toMachineId |-> "machine-003"] >>

\* arguments of addMachine (Omit<Machine, 'id'>): the record the toolbar's
\* dialog builds, one with no optional field and a negative throughput, and
\* a running machine
NewMachineInputs ==
  { [name |-> "Press", type |-> "processor", status |-> "idle", throughput |-> 0,
     position |-> <<0, 0, 0>>, description |-> ""],
    [name |-> "Oven", status |-> "active", throughput |-> -5,
     position |-> <<2, 0, -4>>],
    [name |-> "Mixer", type |-> "packer", status |-> "active", throughput |-> 100,
     position |-> <<4, 0, 2>>, description |-> "line 2"] }

\* arguments of updateMachine (Partial<Machine>): the record the sidebar's
\* Save builds, a partial carrying an id, and a one-field partial
PartialInputs ==
  { [name |-> "Feeder X", description |-> "edited", throughput |-> 80, status |-> "idle"],
    [id |-> M2],
    [status |-> "stopped"] }

\* arguments of batchUpdateFromProductionData
BatchInputs ==
  { << [id |-> M1, status |-> "stopped", throughput |-> 0] >>,
    << [id |-> GhostId, status |-> "active", throughput |-> 70] >>,
    << [id |-> M1, status |-> "idle", throughput |-> 40],
       [id |-> GhostId, status |-> "idle", throughput |-> 5],
       [id |-> M1, status |-> "active", throughput |-> 90] >> }

\* the undefined a missing property reads as
Undefined == "<undefined>"

\* an APIMachineData record of the feed with the fields of update
APIMachineData(update) ==
  [f \in DOMAIN update \cup {"efficiency", "timestamp"} |->
     IF f = "efficiency" THEN 91 ELSE IF f = "timestamp" THEN "t1" ELSE update[f]]

\* an APIProductionResponse carrying the batch
APIProductionResponse(batch) ==
  [timestamp |-> "t1", lineId |-> "line-1",
   machines |-> [i \in 1..Len(batch) |-> APIMachineData(batch[i])]]

\* parsed feed payloads that are well formed
ValidResponses == { APIProductionResponse(batch) : batch \in BatchInputs }

\* parsed feed payloads that are not: no machines list; a machines list with
\* a well-formed record, a record whose status is outside the enumeration and
\* a record without status
MalformedResponses ==
  { [timestamp |-> "t1", lineId |-> "line-1"],
    APIProductionResponse(<< [id |-> M2, status |-> "idle", throughput |-> 60],
                             [id |-> M1, status |-> "broken", throughput |-> 10],
                             [id |-> "machine-003", throughput |-> 7] >>) }

FeedResponses == ValidResponses \cup MalformedResponses

\* the payload is not an APIProductionResponse
Malformed(data) ==
  \/ "machines" \notin DOMAIN data
  \/ \E i \in 1..Len(data.machines) :
       \/ "status" \notin DOMAIN data.machines[i]
       \/ "throughput" \notin DOMAIN data.machines[i]
       \/ data.machines[i].status \notin MachineStatus

\* event.data of the push transport: a text that is not JSON and the JSON
\* texts of a well-formed payload and of the malformed ones
NotJSON == "<html>502 Bad Gateway</html>"
StoppedJSON == "{\"timestamp\":\"t1\",\"lineId\":\"line-1\",\"machines\":[{\"id\":\"machine-001\",\"status\":\"stopped\",\"throughput\":0,\"efficiency\":91,\"timestamp\":\"t1\"}]}"
NoMachinesJSON == "{\"timestamp\":\"t1\",\"lineId\":\"line-1\"}"
BrokenJSON == "{\"timestamp\":\"t1\",\"lineId\":\"line-1\",\"machines\":[{\"id\":\"machine-002\",\"status\":\"idle\",\"throughput\":60,\"efficiency\":91,\"timestamp\":\"t1\"},{\"id\":\"machine-001\",\"status\":\"broken\",\"throughput\":10,\"efficiency\":91,\"timestamp\":\"t1\"},{\"id\":\"machine-003\",\"throughput\":7,\"efficiency\":91,\"timestamp\":\"t1\"}]}"
FeedTexts == {NotJSON, StoppedJSON, NoMachinesJSON, BrokenJSON}

\* JSON.parse on the texts of the feed: throws a SyntaxError on a text that
\* is not JSON
JSONparseThrows(text) == text \notin {StoppedJSON, NoMachinesJSON, BrokenJSON}

JSONparse(text) ==
  CASE text = StoppedJSON ->
         APIProductionResponse(<< [id |-> M1, status |-> "stopped", throughput |-> 0] >>)
    [] text = NoMachinesJSON -> [timestamp |-> "t1", lineId |-> "line-1"]
    [] text = BrokenJSON ->
         APIProductionResponse(<< [id |-> M2, status |-> "idle", throughput |-> 60],
                                  [id |-> M1, status |-> "broken", throughput |-> 10],
                                  [id |-> "machine-003", throughput |-> 7] >>)

MachineIdArgs == {M1, M2, GhostId}
UpdateIdArgs == {M1, GhostId}
SelectArgs == {Null, M1, GhostId}
ClickArgs == {M1, M2}
ConnectionArgs == { <<M1, M2>>, <<M2, M1>>, <<M1, M1>>, <<M1, GhostId>> }
ConnectionIdArgs == {"conn-001", GhostConnId}
StatusArgs == {"idle", "stopped"}
ThroughputArgs == {55}

\* ------------------------------------------------------------------- state
VARIABLES
  machines,           \* MachineState.machines
  connections,        \* MachineState.connections
  selectedMachineId,  \* MachineState.selectedMachineId
  now,                \* the value Date.now() returns
  generated,          \* history: the ids addMachine has generated, in call order
  lastOp,             \* history: the last store operation and its arguments
  pre,                \* history: the store as it was before the last operation
  steps,              \* number of store operations performed
  written,            \* history: per machine of the list, the value last written to each
                      \* of its fields by a store operation called directly (creation
                      \* writes every field)
  intervalRef,        \* useSimulation: intervalRef.current, 0 for null, else a timer id
  isSimulating,       \* useSimulation: the isSimulating state
  simTimers,          \* the interval timers of the simulator that are set and not cleared
  simSnap,            \* per timer id: the `machines` its simulateStep callback closed over
  wsSockets,          \* ProductionWebSocket: every WebSocket created, by creation order, with its state
  ws,                 \* ProductionWebSocket.ws: 0 for null, else an index of wsSockets
  reconnectAttempts,  \* ProductionWebSocket.reconnectAttempts
  wsTimers,           \* number of pending setTimeout(() => this.connect()) callbacks
  wsReconnectsMade,   \* history: connections made by reconnect timers since the last open
  wsScheduled,        \* history: reconnects scheduled since the last external connect()
  wsDisconnected,     \* history: disconnect() was called since the last external connect()
  wsMessages,         \* history: number of messages received
  wsGaveUp,           \* history: 'Max reconnection attempts reached' was logged since the last external connect()
  intervalId,         \* ProductionPoller.intervalId: 0 for null, else a timer id
  pollTimers,         \* the interval timers of the poller that are set and not cleared
  pollTimerCount,     \* number of interval timers the poller has created
  pollInFlight,       \* fetches dispatched and not yet settled, by dispatch number
  pollDispatched,     \* history: number of fetches dispatched
  pollApplied,        \* history: the fetches whose response handleData applied, in order
  dataCalls,          \* history: number of onDataCallback invocations
  errorCalls          \* history: number of onErrorCallback invocations

storeVars == <<machines, connections, selectedMachineId>>
simVars == <<intervalRef, isSimulating, simTimers, simSnap>>
wsVars == <<wsSockets, ws, reconnectAttempts, wsTimers, wsReconnectsMade, wsGaveUp,
            wsScheduled, wsDisconnected, wsMessages>>
pollVars == <<intervalId, pollTimers, pollTimerCount, pollInFlight, pollDispatched,
              pollApplied,
              dataCalls, errorCalls>>
vars == <<machines, connections, selectedMachineId, now, generated, lastOp, pre, steps,
          written,
          intervalRef, isSimulating, simTimers, simSnap,
          wsSockets, ws, reconnectAttempts, wsTimers, wsReconnectsMade, wsGaveUp,
          wsScheduled, wsDisconnected, wsMessages,
          intervalId, pollTimers, pollTimerCount, pollInFlight, pollDispatched,
          pollApplied,
          dataCalls, errorCalls>>

\* the store as a snapshot (get())
Snapshot == [machines |-> machines, connections |-> connections,
             selectedMachineId |-> selectedMachineId]

\* ---------------------------------------------------------- pure helpers
\* { ...m, ...u }
Spread(m, u) ==
  [f \in (DOMAIN m) \cup (DOMAIN u) |-> IF f \in DOMAIN u THEN u[f] ELSE m[f]]

\* the ids of a machine list, in order
IdsOf(ms) == [i \in 1..Len(ms) |-> ms[i].id]

IdSet(ms) == {ms[i].id : i \in 1..Len(ms)}

Init ==
  /\ machines = <<>>
  /\ connections = <<>>
  /\ selectedMachineId = Null
  /\ now = 0
  /\ generated = <<>>
  /\ lastOp = [op |-> "create"]
  /\ pre = [machines |-> <<>>, connections |-> <<>>, selectedMachineId |-> Null]
  /\ steps = 0
  /\ written = <<>>
  /\ intervalRef = 0
  /\ isSimulating = FALSE
  /\ simTimers = {}
  /\ simSnap = <<>>
  /\ wsSockets = <<>>
  /\ ws = 0
  /\ reconnectAttempts = 0
  /\ wsTimers = 0
  /\ wsReconnectsMade = 0
  /\ wsGaveUp = FALSE
  /\ wsScheduled = 0
  /\ wsDisconnected = FALSE
  /\ wsMessages = 0
  /\ intervalId = 0
  /\ pollTimers = {}
  /\ pollTimerCount = 0
  /\ pollInFlight = {}
  /\ pollDispatched = 0
  /\ pollApplied = <<>>
  /\ dataCalls = 0
  /\ errorCalls = 0

\* the fields the call op writes on the machine whose last written values
\* are w, with the values it writes; the empty record for a call that does
\* not address that machine
WrittenBy(op, w) ==
  CASE op.op = "updateMachine" /\ w.id = op.id -> op.updates
    [] op.op = "updateMachineStatus" /\ w.id = op.id -> [status |-> op.status]
    [] op.op = "updateMachineThroughput" /\ w.id = op.id -> [throughput |-> op.throughput]
    [] op.op = "batchUpdateFromProductionData" /\ (\E k \in 1..Len(op.data) : op.data[k].id = w.id) ->
         LET k == CHOOSE k \in 1..Len(op.data) :
                    /\ op.data[k].id = w.id
                    /\ \A j \in 1..(k - 1) : op.data[j].id # w.id
         IN  [status |-> op.data[k].status, throughput |-> op.data[k].throughput]
    [] OTHER -> <<>>

\* the last written values after the call op
WrittenAfter(op) ==
  CASE op.op = "loadInitialData" -> initialMachines
    [] op.op = "addMachine" ->
         Append(written, [f \in DOMAIN op.machine \cup {"id"} |->
                            IF f = "id" THEN op.id ELSE op.machine[f]])
    [] op.op = "deleteMachine" -> SelectSeq(written, LAMBDA w : w.id # op.id)
    [] OTHER ->
         [i \in 1..Len(written) |->
            [f \in DOMAIN written[i] \cup DOMAIN WrittenBy(op, written[i]) |->
               IF f \in DOMAIN WrittenBy(op, written[i])
               THEN WrittenBy(op, written[i])[f]
               ELSE written[i][f]]]

\* bookkeeping shared by every store operation
Record(op) ==
  /\ steps < MaxSteps
  /\ steps' = steps + 1
  /\ lastOp' = op
  /\ pre' = Snapshot
  /\ written' = WrittenAfter(op)
  /\ UNCHANGED simVars
  /\ UNCHANGED <<wsVars, pollVars>>

\* time passes: Date.now() grows
Tick ==
  /\ now < MaxTime
  /\ now' = now + 1
  /\ UNCHANGED <<machines, connections, selectedMachineId, generated, lastOp, pre, steps, written>>
  /\ UNCHANGED simVars
  /\ UNCHANGED <<wsVars, pollVars>>

\* a reset that keeps the connections it finds
loadInitialData_KeepsConnections ==
  /\ Record([op |-> "loadInitialData"])
  /\ machines' = initialMachines
  /\ connections' = connections \o initialConnections
  /\ UNCHANGED <<selectedMachineId, now, generated>>

loadInitialData ==
  /\ Record([op |-> "loadInitialData"])
  /\ machines' = initialMachines
  /\ connections' = initialConnections
  /\ UNCHANGED <<selectedMachineId, now, generated>>

\* addMachine: machines: [...state.machines, { ...machine, id }]
addMachineList_ClampsThroughput(ms, machine, id) ==
  Append(ms, Spread(machine, [id |-> id,
                              throughput |-> IF machine.throughput < 0 THEN 0
                                             ELSE machine.throughput]))

addMachineList(ms, machine, id) == Append(ms, Spread(machine, [id |-> id]))

addMachine(machine, r) ==
  /\ Record([op |-> "addMachine", machine |-> machine, id |-> MachineId(now, r)])
  /\ machines' = addMachineList(machines, machine, MachineId(now, r))
  /\ generated' = Append(generated, MachineId(now, r))
  /\ UNCHANGED <<connections, selectedMachineId, now>>

\* updateMachine: state.machines.map(m => m.id === id ? { ...m, ...updates } : m)
updateMachineList_MachineWins(ms, id, updates) ==
  [i \in 1..Len(ms) |-> IF ms[i].id = id THEN Spread(updates, ms[i]) ELSE ms[i]]

updateMachineList(ms, id, updates) ==
  [i \in 1..Len(ms) |-> IF ms[i].id = id THEN Spread(ms[i], updates) ELSE ms[i]]

updateMachine(id, updates) ==
  /\ Record([op |-> "updateMachine", id |-> id, updates |-> updates])
  /\ machines' = updateMachineList(machines, id, updates)
  /\ UNCHANGED <<connections, selectedMachineId, now, generated>>

\* deleteMachine: state.machines.filter(m => m.id !== id)
deleteMachineList(ms, id) == SelectSeq(ms, LAMBDA m : m.id # id)

\* deleteMachine: state.connections.filter(c => c.fromMachineId !== id && c.toMachineId !== id)
deleteMachineConnections_FromOnly(cs, id) ==
  SelectSeq(cs, LAMBDA c : c.fromMachineId # id)

deleteMachineConnections(cs, id) ==
  SelectSeq(cs, LAMBDA c : c.fromMachineId # id /\ c.toMachineId # id)

\* deleteMachine: state.selectedMachineId === id ? null : state.selectedMachineId
deleteMachineSelection(sel, id) == IF sel = id THEN Null ELSE sel

deleteMachine(id) ==
  /\ Record([op |-> "deleteMachine", id |-> id])
  /\ machines' = deleteMachineList(machines, id)
  /\ connections' = deleteMachineConnections(connections, id)
  /\ selectedMachineId' = deleteMachineSelection(selectedMachineId, id)
  /\ UNCHANGED <<now, generated>>

selectMachine(id) ==
  /\ Record([op |-> "selectMachine", id |-> id])
  /\ selectedMachineId' = id
  /\ UNCHANGED <<machines, connections, now, generated>>

\* handleMachineClick: machineId === selectedMachineId ? null : machineId
handleMachineClickTarget_NoToggle(machineId, sel) == machineId

handleMachineClickTarget(machineId, sel) == IF machineId = sel THEN Null ELSE machineId

\* the canvas renders one mesh per machine of the store; a click on the mesh
\* of machineId calls selectMachine with the toggled id
handleMachineClick(machineId) ==
  /\ machineId \in IdSet(machines)
  /\ Record([op |-> "handleMachineClick", id |-> machineId])
  /\ selectedMachineId' = handleMachineClickTarget(machineId, selectedMachineId)
  /\ UNCHANGED <<machines, connections, now, generated>>

\* a click on the canvas background calls selectMachine(null)
handleBackgroundClick ==
  /\ Record([op |-> "handleBackgroundClick"])
  /\ selectedMachineId' = Null
  /\ UNCHANGED <<machines, connections, now, generated>>

\* addConnection: get().connections.some(c => c.fromMachineId === fromId && c.toMachineId === toId)
connectionExists(cs, fromId, toId) ==
  \E i \in 1..Len(cs) : cs[i].fromMachineId = fromId /\ cs[i].toMachineId = toId

\* addConnection: the two early returns
addConnectionRejected_NoSelfLoopCheck(cs, fromId, toId) ==
  connectionExists(cs, fromId, toId)

addConnectionRejected_NoDuplicateCheck(cs, fromId, toId) ==
  fromId = toId

addConnectionRejected(cs, fromId, toId) ==
  \/ fromId = toId
  \/ connectionExists(cs, fromId, toId)

addConnection(fromId, toId, r) ==
  /\ Record([op |-> "addConnection", fromId |-> fromId, toId |-> toId])
  /\ connections' =
       IF addConnectionRejected(connections, fromId, toId)
       THEN connections
       ELSE Append(connections,
                   [id |-> ConnId(now, r), fromMachineId |-> fromId, toMachineId |-> toId])
  /\ UNCHANGED <<machines, selectedMachineId, now, generated>>

\* deleteConnection: state.connections.filter(c => c.id !== id)
deleteConnection(id) ==
  /\ Record([op |-> "deleteConnection", id |-> id])
  /\ connections' = SelectSeq(connections, LAMBDA c : c.id # id)
  /\ UNCHANGED <<machines, selectedMachineId, now, generated>>

\* updateMachineStatus: state.machines.map(m => m.id === id ? { ...m, status } : m)
updateMachineStatus_CouplesThroughput(id, status) ==
  /\ Record([op |-> "updateMachineStatus", id |-> id, status |-> status])
  /\ machines' = [i \in 1..Len(machines) |->
                    IF machines[i].id = id
                    THEN Spread(machines[i],
                                IF status \in {"stopped", "maintenance"}
                                THEN [status |-> status, throughput |-> 0]
                                ELSE [status |-> status])
                    ELSE machines[i]]
  /\ UNCHANGED <<connections, selectedMachineId, now, generated>>

updateMachineStatusList(ms, id, status) ==
  [i \in 1..Len(ms) |-> IF ms[i].id = id THEN Spread(ms[i], [status |-> status]) ELSE ms[i]]

updateMachineStatus(id, status) ==
  /\ Record([op |-> "updateMachineStatus", id |-> id, status |-> status])
  /\ machines' = updateMachineStatusList(machines, id, status)
  /\ UNCHANGED <<connections, selectedMachineId, now, generated>>

\* updateMachineThroughput: state.machines.map(m => m.id === id ? { ...m, throughput } : m)
updateMachineThroughputList_Upserts(ms, id, throughput) ==
  IF \E i \in 1..Len(ms) : ms[i].id = id
  THEN [i \in 1..Len(ms) |->
          IF ms[i].id = id THEN Spread(ms[i], [throughput |-> throughput]) ELSE ms[i]]
  ELSE Append(ms, [id |-> id, name |-> "", status |-> "active",
                   throughput |-> throughput, position |-> <<0, 0, 0>>])

updateMachineThroughputList_KeepsMax(ms, id, throughput) ==
  [i \in 1..Len(ms) |->
     IF ms[i].id = id /\ throughput > ms[i].throughput
     THEN Spread(ms[i], [throughput |-> throughput])
     ELSE ms[i]]

updateMachineThroughputList(ms, id, throughput) ==
  [i \in 1..Len(ms) |->
     IF ms[i].id = id THEN Spread(ms[i], [throughput |-> throughput]) ELSE ms[i]]

updateMachineThroughput(id, throughput) ==
  /\ Record([op |-> "updateMachineThroughput", id |-> id, throughput |-> throughput])
  /\ machines' = updateMachineThroughputList(machines, id, throughput)
  /\ UNCHANGED <<connections, selectedMachineId, now, generated>>

\* data.find(d => d.id === id): index of the first record with that id, 0 if none
FindIndex(data, id) ==
  IF \E k \in 1..Len(data) : data[k].id = id
  THEN CHOOSE k \in 1..Len(data) :
         /\ data[k].id = id
         /\ \A j \in 1..(k - 1) : data[j].id # id
  ELSE 0

\* batchUpdateFromProductionData: state.machines.map(m => { const update = data.find(...);
\*   return update ? { ...m, status: update.status, throughput: update.throughput } : m })
batchUpdateList_AppendsUnknown(ms, data) ==
  [i \in 1..Len(ms) |->
     IF FindIndex(data, ms[i].id) # 0
     THEN Spread(ms[i], [status |-> data[FindIndex(data, ms[i].id)].status,
                         throughput |-> data[FindIndex(data, ms[i].id)].throughput])
     ELSE ms[i]]
  \o SelectSeq(data, LAMBDA d : \A i \in 1..Len(ms) : ms[i].id # d.id)

\* a batch update in which the last record with a machine's id decides
batchUpdateList_LastWins(ms, data) ==
  [i \in 1..Len(ms) |->
     IF \E k \in 1..Len(data) : data[k].id = ms[i].id
     THEN LET k == CHOOSE k \in 1..Len(data) :
                     /\ data[k].id = ms[i].id
                     /\ \A j \in (k + 1)..Len(data) : data[j].id # ms[i].id
          IN  Spread(ms[i], [status |-> data[k].status, throughput |-> data[k].throughput])
     ELSE ms[i]]

batchUpdateList_StatusOnly(ms, data) ==
  [i \in 1..Len(ms) |->
     IF FindIndex(data, ms[i].id) # 0
     THEN Spread(ms[i], [status |-> data[FindIndex(data, ms[i].id)].status])
     ELSE ms[i]]

batchUpdateList(ms, data) ==
  [i \in 1..Len(ms) |->
     IF FindIndex(data, ms[i].id) # 0
     THEN Spread(ms[i], [status |-> data[FindIndex(data, ms[i].id)].status,
                         throughput |-> data[FindIndex(data, ms[i].id)].throughput])
     ELSE ms[i]]

batchUpdateFromProductionData(data) ==
  /\ Record([op |-> "batchUpdateFromProductionData", data |-> data])
  /\ machines' = batchUpdateList(machines, data)
  /\ UNCHANGED <<connections, selectedMachineId, now, generated>>

Next ==
  \/ Tick
  \/ loadInitialData
  \/ \E machine \in NewMachineInputs, r \in RandStrs : addMachine(machine, r)
  \/ \E id \in UpdateIdArgs, updates \in PartialInputs : updateMachine(id, updates)
  \/ \E id \in MachineIdArgs : deleteMachine(id)
  \/ \E id \in SelectArgs : selectMachine(id)
  \/ \E id \in ClickArgs : handleMachineClick(id)
  \/ handleBackgroundClick
  \/ \E p \in ConnectionArgs, r \in RandStrs : addConnection(p[1], p[2], r)
  \/ \E id \in ConnectionIdArgs : deleteConnection(id)
  \/ \E id \in UpdateIdArgs, status \in StatusArgs : updateMachineStatus(id, status)
  \/ \E id \in UpdateIdArgs, throughput \in ThroughputArgs : updateMachineThroughput(id, throughput)
  \/ \E data \in BatchInputs : batchUpdateFromProductionData(data)

Spec == Init /\ [][Next]_vars

\* ---------------------------------------------------------------- simulator
\* App: useSimulation({ updateInterval: 1500, fluctuationRange: 15 })
fluctuationRange == 15

\* Math.random() returns RandNum / RandDen; the outcomes used for the three
\* draws simulateStep makes for one machine
RandDen == 100
DrawRands == {5, 50}
StatusRands == {50, 65, 80, 99}
FluctRands == {0, 50, 99}
\* the draws for one machine; a draw simulateStep does not make is fixed at 50
RandChoices ==
  { c \in [draw : DrawRands, status : StatusRands, fluct : FluctRands] :
      /\ (c.draw * 10 >= RandDen => c.status = 50)
      /\ (c.draw * 10 < RandDen /\ c.status * 100 > 60 * RandDen => c.fluct = 50) }

\* the outcomes with which a tick leaves a machine alone: no status draw and
\* a fluctuation of 0
QuietChoice == [draw |-> 50, status |-> 50, fluct |-> 50]

\* the outcomes of the one machine that departs from QuietChoice on a long
\* list: stopped drawn, idle drawn, the largest fluctuation
LoneChoices == { [draw |-> 5, status |-> 65, fluct |-> 50],
                 [draw |-> 5, status |-> 80, fluct |-> 50],
                 [draw |-> 50, status |-> 50, fluct |-> 99] }

\* the random outcomes of one tick over a closure of n machines
TickChoices(n) ==
  IF n <= MaxFullDraws
  THEN [1..n -> RandChoices]
  ELSE { [i \in 1..n |-> IF i = k THEN c ELSE QuietChoice] :
           k \in 1..n, c \in LoneChoices }

\* Math.random() < 0.1
drawsStatus(r) == r * 10 < 1 * RandDen

\* generateRandomStatus
generateRandomStatus(r) ==
  IF r * 100 > 85 * RandDen THEN "maintenance"
  ELSE IF r * 100 > 70 * RandDen THEN "idle"
  ELSE IF r * 100 > 60 * RandDen THEN "stopped"
  ELSE "active"

\* Math.floor(Math.random() * finalConfig.fluctuationRange * 2) - finalConfig.fluctuationRange
fluctuation(r) == ((r * fluctuationRange * 2) \div RandDen) - fluctuationRange

\* every outcome of Math.random(), in units of 1/RandDen
AllRands == 0..(RandDen - 1)

\* Math.floor(machine.throughput * 0.3)
idleThroughput(p) == (3 * p) \div 10

\* Math.max(0, machine.throughput + fluctuation)
newThroughput(p, f) == IF p + f > 0 THEN p + f ELSE 0

\* simulateStep, lines 50-55: the fluctuation of one machine of the closure
fluctuateMachine(ms, machine, c) ==
  IF machine.status = "active"
  THEN updateMachineThroughputList(ms, machine.id,
                                   newThroughput(machine.throughput, fluctuation(c.fluct)))
  ELSE ms

\* simulateStep, lines 31-55: the body of forEach for one machine of the
\* closure, applied to the machines of the store
simulateMachine_NoReturn(ms, machine, c) ==
  IF drawsStatus(c.draw)
  THEN LET newStatus == generateRandomStatus(c.status)
           ms1 == updateMachineStatusList(ms, machine.id, newStatus)
       IN  IF newStatus \in {"stopped", "maintenance"}
           THEN fluctuateMachine(updateMachineThroughputList(ms1, machine.id, 0), machine, c)
           ELSE IF newStatus = "idle"
           THEN updateMachineThroughputList(ms1, machine.id,
                                            idleThroughput(machine.throughput))
           ELSE fluctuateMachine(ms1, machine, c)
  ELSE fluctuateMachine(ms, machine, c)

simulateMachine(ms, machine, c) ==
  IF drawsStatus(c.draw)
  THEN LET newStatus == generateRandomStatus(c.status)
           ms1 == updateMachineStatusList(ms, machine.id, newStatus)
       IN  IF newStatus \in {"stopped", "maintenance"}
           THEN updateMachineThroughputList(ms1, machine.id, 0)
           ELSE IF newStatus = "idle"
           THEN updateMachineThroughputList(ms1, machine.id,
                                            idleThroughput(machine.throughput))
           ELSE fluctuateMachine(ms1, machine, c)
  ELSE fluctuateMachine(ms, machine, c)

\* machines.forEach(...): the store's machines after each machine of the
\* closure, in order; element i is the store after the i-th machine
RECURSIVE simulateTrace(_, _, _, _)
simulateTrace(ms, snap, ch, i) ==
  IF i > Len(snap) THEN <<>>
  ELSE LET after == simulateMachine(ms, snap[i], ch[i])
       IN  <<after>> \o simulateTrace(after, snap, ch, i + 1)

\* the simulator's state, for the history
SimState == [intervalRef |-> intervalRef, isSimulating |-> isSimulating,
             simTimers |-> simTimers]

\* bookkeeping shared by the simulator's operations
SimRecord(op) ==
  /\ steps < MaxSimSteps
  /\ steps' = steps + 1
  /\ lastOp' = op
  /\ pre' = Snapshot
  /\ UNCHANGED <<now, generated, written>>
  /\ UNCHANGED <<wsVars, pollVars>>

\* the interval callback of timer t: simulateStep with the machines it closed over
simulateStep(t) ==
  /\ t \in simTimers
  /\ steps < MaxSimSteps
  /\ \E ch \in TickChoices(Len(simSnap[t])) :
     \E trace \in {simulateTrace(machines, simSnap[t], ch, 1)} :
       /\ machines' = IF Len(trace) = 0 THEN machines ELSE trace[Len(trace)]
       /\ SimRecord([op |-> "simulateStep", timer |-> t, snap |-> simSnap[t],
                     ch |-> ch, trace |-> trace])
  /\ UNCHANGED <<connections, selectedMachineId, intervalRef, isSimulating,
                 simTimers, simSnap>>

\* startSimulation: setInterval(simulateStep, ...) unless intervalRef.current is set
startSimulation_NoGuard ==
  /\ SimRecord([op |-> "startSimulation", was |-> SimState])
  /\ isSimulating' = TRUE
  /\ intervalRef' = Len(simSnap) + 1
  /\ simTimers' = simTimers \cup {Len(simSnap) + 1}
  /\ simSnap' = Append(simSnap, machines)
  /\ UNCHANGED <<machines, connections, selectedMachineId>>

startSimulation ==
  /\ SimRecord([op |-> "startSimulation", was |-> SimState])
  /\ IF intervalRef # 0
     THEN UNCHANGED <<intervalRef, isSimulating, simTimers, simSnap>>
     ELSE /\ isSimulating' = TRUE
          /\ intervalRef' = Len(simSnap) + 1
          /\ simTimers' = simTimers \cup {Len(simSnap) + 1}
          /\ simSnap' = Append(simSnap, machines)
  /\ UNCHANGED <<machines, connections, selectedMachineId>>

\* stopSimulation: clearInterval(intervalRef.current) if set, setIsSimulating(false)
stopSimulation ==
  /\ SimRecord([op |-> "stopSimulation", was |-> SimState])
  /\ simTimers' = simTimers \ {intervalRef}
  /\ intervalRef' = 0
  /\ isSimulating' = FALSE
  /\ UNCHANGED <<machines, connections, selectedMachineId, simSnap>>

\* toggleSimulation: isSimulating ? stopSimulation() : startSimulation()
toggleSimulation ==
  /\ SimRecord([op |-> "toggleSimulation", was |-> SimState])
  /\ IF isSimulating
     THEN /\ simTimers' = simTimers \ {intervalRef}
          /\ intervalRef' = 0
          /\ isSimulating' = FALSE
          /\ UNCHANGED simSnap
     ELSE IF intervalRef # 0
     THEN UNCHANGED <<intervalRef, isSimulating, simTimers, simSnap>>
     ELSE /\ isSimulating' = TRUE
          /\ intervalRef' = Len(simSnap) + 1
          /\ simTimers' = simTimers \cup {Len(simSnap) + 1}
          /\ simSnap' = Append(simSnap, machines)
  /\ UNCHANGED <<machines, connections, selectedMachineId>>

\* the simulator with the store operations that add, edit and delete the
\* machines it runs on
NextSim ==
  \/ \E machine \in NewMachineInputs, r \in RandStrs : addMachine(machine, r)
  \/ \E id \in IdSet(machines), throughput \in ThroughputArgs :
       updateMachineThroughput(id, throughput)
  \/ \E id \in IdSet(machines) : deleteMachine(id)
  \/ startSimulation
  \/ stopSimulation
  \/ toggleSimulation
  \/ \E t \in simTimers : simulateStep(t)

SpecSim == Init /\ [][NextSim]_vars

\* the simulator as the only source of mutations, on the initial data set
NextSimOnly ==
  \/ loadInitialData
  \/ startSimulation
  \/ stopSimulation
  \/ toggleSimulation
  \/ \E t \in simTimers : simulateStep(t)

SpecSimOnly == Init /\ [][NextSimOnly]_vars

\* the simulator on the initial data set while machines are added, deleted
\* and selected
NextSimLoaded ==
  \/ loadInitialData
  \/ \E machine \in NewMachineInputs, r \in RandStrs : addMachine(machine, r)
  \/ \E id \in ClickArgs : deleteMachine(id)
  \/ \E id \in ClickArgs : handleMachineClick(id)
  \/ startSimulation
  \/ \E t \in simTimers : simulateStep(t)

SpecSimLoaded == Init /\ [][NextSimLoaded]_vars

\* ------------------------------------------- useProductionDataRealtime
\* m.status, m.throughput: reading a property of an object
Field(m, f) == IF f \in DOMAIN m THEN m[f] ELSE Undefined

\* handleData: data.machines.map(...) throws a TypeError when data has no machines
handleDataThrows(data) == "machines" \notin DOMAIN data

\* handleData: the updates built from data.machines
handleDataUpdates(data) ==
  [i \in 1..Len(data.machines) |->
     [id |-> data.machines[i].id,
      status |-> Field(data.machines[i], "status"),
      throughput |-> Field(data.machines[i], "throughput")]]

\* handleData(data): the callback the integration hook gives to the adapters
handleData(ms, data) == batchUpdateList(ms, handleDataUpdates(data))

\* ------------------------------------------------- ProductionWebSocket
maxReconnectAttempts == 5

\* WebSocket states: CONNECTING, OPEN, CLOSING, CLOSED
LiveSockets == {i \in 1..Len(wsSockets) : wsSockets[i] # "closed"}

WsState == [ws |-> ws, reconnectAttempts |-> reconnectAttempts, wsTimers |-> wsTimers,
            live |-> LiveSockets, made |-> wsReconnectsMade,
            disconnected |-> wsDisconnected]

\* bookkeeping shared by every event of the push adapter
WsRecord(op) ==
  /\ steps < MaxWsSteps
  /\ steps' = steps + 1
  /\ lastOp' = op
  /\ UNCHANGED <<machines, connections, selectedMachineId, now, generated, pre>>
  /\ UNCHANGED <<simVars, pollVars, wsMessages, written>>

\* connect(): this.ws = new WebSocket(wsUrl)
newWebSocket ==
  /\ wsSockets' = Append(wsSockets, "connecting")
  /\ ws' = Len(wsSockets) + 1

\* attemptReconnect without its bound
attemptReconnect_Unbounded ==
  /\ reconnectAttempts' = reconnectAttempts + 1
  /\ wsTimers' = wsTimers + 1
  /\ wsScheduled' = wsScheduled + 1
  /\ UNCHANGED wsGaveUp

attemptReconnect ==
  IF reconnectAttempts < maxReconnectAttempts
  THEN /\ reconnectAttempts' = reconnectAttempts + 1
       /\ wsTimers' = wsTimers + 1
       /\ wsScheduled' = wsScheduled + 1
       /\ UNCHANGED wsGaveUp
  ELSE /\ wsGaveUp' = TRUE
       /\ UNCHANGED <<reconnectAttempts, wsTimers, wsScheduled>>

\* connect() called from outside the adapter: by the integration hook on the
\* adapter it has just created, or to restart an adapter that has no socket
\* and no reconnect outstanding
connect ==
  /\ LiveSockets = {}
  /\ wsTimers = 0
  /\ WsRecord([op |-> "connect", was |-> WsState])
  /\ newWebSocket
  /\ wsGaveUp' = FALSE
  /\ wsDisconnected' = FALSE
  /\ wsScheduled' = 0
  /\ UNCHANGED <<reconnectAttempts, wsTimers, wsReconnectsMade>>

\* the setTimeout callback of attemptReconnect: () => this.connect()
reconnectTimer ==
  /\ wsTimers > 0
  /\ WsRecord([op |-> "reconnectTimer", was |-> WsState])
  /\ wsTimers' = wsTimers - 1
  /\ newWebSocket
  /\ wsReconnectsMade' = wsReconnectsMade + 1
  /\ UNCHANGED <<reconnectAttempts, wsGaveUp, wsDisconnected, wsScheduled>>

\* ws.onopen of socket s
onopen(s) ==
  /\ s \in 1..Len(wsSockets)
  /\ wsSockets[s] = "connecting"
  /\ WsRecord([op |-> "onopen", socket |-> s, was |-> WsState])
  /\ wsSockets' = [wsSockets EXCEPT ![s] = "open"]
  /\ reconnectAttempts' = 0
  /\ wsReconnectsMade' = 0
  /\ UNCHANGED <<ws, wsTimers, wsGaveUp, wsDisconnected, wsScheduled>>

\* ws.onclose of socket s: the connection failed, was lost, or finished closing
onclose(s) ==
  /\ s \in LiveSockets
  /\ WsRecord([op |-> "onclose", socket |-> s, was |-> WsState])
  /\ wsSockets' = [wsSockets EXCEPT ![s] = "closed"]
  /\ attemptReconnect
  /\ UNCHANGED <<ws, wsReconnectsMade, wsDisconnected>>

\* disconnect(): this.ws?.close(); this.ws = null
disconnect ==
  /\ WsRecord([op |-> "disconnect", was |-> WsState])
  /\ wsSockets' = IF ws # 0 /\ wsSockets[ws] \in {"connecting", "open"}
                  THEN [wsSockets EXCEPT ![ws] = "closing"]
                  ELSE wsSockets
  /\ ws' = 0
  /\ wsDisconnected' = TRUE
  /\ UNCHANGED wsScheduled
  /\ UNCHANGED <<reconnectAttempts, wsTimers, wsReconnectsMade, wsGaveUp>>

\* ws.onmessage of socket s: JSON.parse(event.data) and onDataCallback inside
\* a try whose catch logs
onmessage(s, text) ==
  /\ s \in 1..Len(wsSockets)
  /\ wsSockets[s] = "open"
  /\ steps < MaxWsSteps
  /\ wsMessages < MaxWsMessages
  /\ steps' = steps + 1
  /\ wsMessages' = wsMessages + 1
  /\ lastOp' = [op |-> "onmessage", socket |-> s, text |-> text, was |-> WsState]
  /\ pre' = Snapshot
  /\ machines' = IF JSONparseThrows(text) \/ handleDataThrows(JSONparse(text))
                 THEN machines
                 ELSE handleData(machines, JSONparse(text))
  /\ UNCHANGED <<connections, selectedMachineId, now, generated, written>>
  /\ UNCHANGED <<wsSockets, ws, reconnectAttempts, wsTimers, wsReconnectsMade, wsGaveUp,
                 wsDisconnected, wsScheduled>>
  /\ UNCHANGED <<simVars, pollVars>>

NextWs ==
  \/ loadInitialData
  \/ connect
  \/ reconnectTimer
  \/ \E s \in 1..Len(wsSockets) : onopen(s)
  \/ \E s \in 1..Len(wsSockets), text \in FeedTexts : onmessage(s, text)
  \/ \E s \in 1..Len(wsSockets) : onclose(s)
  \/ disconnect

SpecWs == Init /\ [][NextWs]_vars

\* --------------------------------------------------- ProductionPoller
PollState == [intervalId |-> intervalId, pollTimers |-> pollTimers,
              pollInFlight |-> pollInFlight, pollDispatched |-> pollDispatched,
              dataCalls |-> dataCalls, errorCalls |-> errorCalls]

\* bookkeeping shared by every event of the polling adapter
PollRecord(op) ==
  /\ steps < MaxPollSteps
  /\ steps' = steps + 1
  /\ lastOp' = op
  /\ pre' = Snapshot
  /\ UNCHANGED <<now, generated, written>>
  /\ UNCHANGED <<simVars, wsVars>>

\* fetchData() up to its await: the request is dispatched
dispatchFetch ==
  /\ pollInFlight' = pollInFlight \cup {pollDispatched + 1}
  /\ pollDispatched' = pollDispatched + 1
  /\ UNCHANGED pollApplied

\* start(): this.fetchData(); this.intervalId = setInterval(...)
start ==
  /\ PollRecord([op |-> "start", was |-> PollState])
  /\ dispatchFetch
  /\ pollTimerCount' = pollTimerCount + 1
  /\ intervalId' = pollTimerCount + 1
  /\ pollTimers' = pollTimers \cup {pollTimerCount + 1}
  /\ UNCHANGED <<machines, connections, selectedMachineId, dataCalls, errorCalls>>

\* stop()
stop ==
  /\ PollRecord([op |-> "stop", was |-> PollState])
  /\ IF intervalId # 0
     THEN /\ pollTimers' = pollTimers \ {intervalId}
          /\ intervalId' = 0
     ELSE UNCHANGED <<pollTimers, intervalId>>
  /\ UNCHANGED <<machines, connections, selectedMachineId, pollTimerCount, pollInFlight,
                 pollDispatched, dataCalls, errorCalls, pollApplied>>

\* the interval callback of timer t: () => this.fetchData()
pollTimer(t) ==
  /\ t \in pollTimers
  /\ PollRecord([op |-> "pollTimer", timer |-> t, was |-> PollState])
  /\ dispatchFetch
  /\ UNCHANGED <<machines, connections, selectedMachineId, intervalId, pollTimers,
                 pollTimerCount, dataCalls, errorCalls>>

\* fetchData() after its await, fetch f resolved with data: onDataCallback
\* inside the try, whose catch calls onErrorCallback
fetchDataResolved(f, data) ==
  /\ f \in pollInFlight
  /\ PollRecord([op |-> "fetchDataResolved", fetch |-> f, data |-> data, was |-> PollState])
  /\ pollInFlight' = pollInFlight \ {f}
  /\ dataCalls' = dataCalls + 1
  /\ IF handleDataThrows(data)
     THEN /\ errorCalls' = errorCalls + 1
          /\ UNCHANGED <<machines, pollApplied>>
     ELSE /\ machines' = handleData(machines, data)
          /\ pollApplied' = Append(pollApplied, f)
          /\ UNCHANGED errorCalls
  /\ UNCHANGED <<connections, selectedMachineId, intervalId, pollTimers, pollTimerCount,
                 pollDispatched>>

\* a failed fetch that also cancels the interval timer
fetchDataRejected_StopsPolling(f) ==
  /\ f \in pollInFlight
  /\ PollRecord([op |-> "fetchDataRejected", fetch |-> f, was |-> PollState])
  /\ pollInFlight' = pollInFlight \ {f}
  /\ errorCalls' = errorCalls + 1
  /\ pollTimers' = pollTimers \ {intervalId}
  /\ intervalId' = 0
  /\ UNCHANGED <<machines, connections, selectedMachineId, pollTimerCount,
                 pollDispatched, dataCalls, pollApplied>>

\* fetchData() after its await, fetch f rejected: the catch branch
fetchDataRejected(f) ==
  /\ f \in pollInFlight
  /\ PollRecord([op |-> "fetchDataRejected", fetch |-> f, was |-> PollState])
  /\ pollInFlight' = pollInFlight \ {f}
  /\ errorCalls' = errorCalls + 1
  /\ UNCHANGED <<machines, connections, selectedMachineId, intervalId, pollTimers,
                 pollTimerCount, pollDispatched, dataCalls, pollApplied>>

NextPoll ==
  \/ loadInitialData
  \/ start
  \/ stop
  \/ \E t \in pollTimers : pollTimer(t)
  \/ \E f \in pollInFlight, data \in FeedResponses : fetchDataResolved(f, data)
  \/ \E f \in pollInFlight : fetchDataRejected(f)

SpecPoll == Init /\ [][NextPoll]_vars

\* ------------------------------------------------------------------ claims
\* ids of a connection list
ConnIdSet(cs) == {cs[i].id : i \in 1..Len(cs)}

\* the last operation was `name`
Did(name) == lastOp.op = name

\* C1: immediately after deleteMachine(m) no connection has m as its source
\* or its target, m is not in the machine collection, and if m was the
\* selection before the call the selection is empty.
C1_CascadeIntegrity ==
  Did("deleteMachine") =>
    /\ \A i \in 1..Len(connections) :
         /\ connections[i].fromMachineId # lastOp.id
         /\ connections[i].toMachineId # lastOp.id
    /\ lastOp.id \notin IdSet(machines)
    /\ (pre.selectedMachineId = lastOp.id => selectedMachineId = Null)

\* a selected machine that had connections was deleted
C1_Witness ==
  /\ Did("deleteMachine")
  /\ lastOp.id \in IdSet(pre.machines)
  /\ pre.selectedMachineId = lastOp.id
  /\ \E i \in 1..Len(pre.connections) :
       \/ pre.connections[i].fromMachineId = lastOp.id
       \/ pre.connections[i].toMachineId = lastOp.id
  /\ Len(connections) < Len(pre.connections)

\* C2: in every reachable state the selection is empty or the id of a
\* machine currently in the machine collection.
C2_SelectionNeverDangling ==
  selectedMachineId = Null \/ selectedMachineId \in IdSet(machines)

\* C3: in every reachable state both endpoints of every connection are ids
\* of machines currently in the machine collection.
C3_NoOrphanConnection ==
  \A i \in 1..Len(connections) :
    /\ connections[i].fromMachineId \in IdSet(machines)
    /\ connections[i].toMachineId \in IdSet(machines)

\* C4: in every reachable state no two machines of the collection have the
\* same id.
C4_MachineIdsUnique ==
  \A i, j \in 1..Len(machines) : i # j => machines[i].id # machines[j].id

\* C5: the ids addMachine generates are pairwise distinct, and each differs
\* from every id that was in the store when it was generated.
C5_GeneratedIdsDistinct ==
  /\ \A i, j \in 1..Len(generated) : i # j => generated[i] # generated[j]
  /\ (Did("addMachine") => lastOp.id \notin IdSet(pre.machines))

\* C6: no two connections have the same ordered (from, to) pair, and
\* addConnection(a, b) when a connection a->b exists leaves the store as it was.
C6_ConnectionDedup ==
  /\ \A i, j \in 1..Len(connections) :
       i # j => \/ connections[i].fromMachineId # connections[j].fromMachineId
                \/ connections[i].toMachineId # connections[j].toMachineId
  /\ (Did("addConnection")
        /\ (\E i \in 1..Len(pre.connections) :
              /\ pre.connections[i].fromMachineId = lastOp.fromId
              /\ pre.connections[i].toMachineId = lastOp.toId)
      => Snapshot = pre)

\* addConnection(a, b) was refused as a duplicate while b->a is in the store
C6_Witness ==
  /\ Did("addConnection")
  /\ lastOp.fromId # lastOp.toId
  /\ \E i \in 1..Len(pre.connections) :
       /\ pre.connections[i].fromMachineId = lastOp.fromId
       /\ pre.connections[i].toMachineId = lastOp.toId
  /\ \E i \in 1..Len(connections) :
       /\ connections[i].fromMachineId = lastOp.toId
       /\ connections[i].toMachineId = lastOp.fromId

\* C7: addConnection(a, a) leaves the whole store as it was, and in every
\* reachable state no connection has its source equal to its target.
C7_SelfLoopRejected ==
  /\ (Did("addConnection") /\ lastOp.fromId = lastOp.toId => Snapshot = pre)
  /\ \A i \in 1..Len(connections) :
       connections[i].fromMachineId # connections[i].toMachineId

\* addConnection(a, a) was called on a store that has connections from a
C7_Witness ==
  /\ Did("addConnection")
  /\ lastOp.fromId = lastOp.toId
  /\ \E i \in 1..Len(connections) : connections[i].fromMachineId = lastOp.fromId

\* C8: batchUpdateFromProductionData leaves the list of machine ids (count
\* and order) exactly as it was.
C8_BatchKeepsMachineIds ==
  Did("batchUpdateFromProductionData") => IdsOf(machines) = IdsOf(pre.machines)

\* a batch with a record of unknown id and a record of a known id was applied
\* to a store holding machines the batch does not mention
C8_Witness ==
  /\ Did("batchUpdateFromProductionData")
  /\ \E k \in 1..Len(lastOp.data) : lastOp.data[k].id \notin IdSet(pre.machines)
  /\ \E k \in 1..Len(lastOp.data) : lastOp.data[k].id \in IdSet(pre.machines)
  /\ \E i \in 1..Len(pre.machines) :
       \A k \in 1..Len(lastOp.data) : lastOp.data[k].id # pre.machines[i].id
  /\ machines # pre.machines

\* the fields of a machine other than status and throughput are as before
SameIdentityFields(m2, m) ==
  /\ DOMAIN m2 = DOMAIN m
  /\ \A f \in (DOMAIN m) \ {"status", "throughput"} : m2[f] = m[f]

\* C9 as stated: after a batch with a record {id X, status S, throughput T}
\* for an existing machine X, X has status S and throughput T and its other
\* fields are unchanged; unmatched machines, connections and selection are
\* unchanged.
C9_Original ==
  Did("batchUpdateFromProductionData") =>
    /\ Len(machines) = Len(pre.machines)
    /\ \A i \in 1..Len(pre.machines) :
         /\ \A k \in 1..Len(lastOp.data) :
              lastOp.data[k].id = pre.machines[i].id =>
                /\ machines[i].status = lastOp.data[k].status
                /\ machines[i].throughput = lastOp.data[k].throughput
                /\ SameIdentityFields(machines[i], pre.machines[i])
         /\ ((\A k \in 1..Len(lastOp.data) : lastOp.data[k].id # pre.machines[i].id)
               => machines[i] = pre.machines[i])
    /\ connections = pre.connections
    /\ selectedMachineId = pre.selectedMachineId

\* C9 amended: the record that decides is the first record of the batch
\* with the machine's id.
C9_BatchFieldScope ==
  Did("batchUpdateFromProductionData") =>
    /\ Len(machines) = Len(pre.machines)
    /\ \A i \in 1..Len(pre.machines) :
         /\ \A k \in 1..Len(lastOp.data) :
              (/\ lastOp.data[k].id = pre.machines[i].id
               /\ \A j \in 1..(k - 1) : lastOp.data[j].id # pre.machines[i].id)
              => /\ machines[i].status = lastOp.data[k].status
                 /\ machines[i].throughput = lastOp.data[k].throughput
                 /\ SameIdentityFields(machines[i], pre.machines[i])
         /\ ((\A k \in 1..Len(lastOp.data) : lastOp.data[k].id # pre.machines[i].id)
               => machines[i] = pre.machines[i])
    /\ connections = pre.connections
    /\ selectedMachineId = pre.selectedMachineId

\* a batch changed the status and the throughput of a machine of a store
\* that has connections, a selection and machines the batch does not mention
C9_Witness ==
  /\ Did("batchUpdateFromProductionData")
  /\ \E i \in 1..Len(pre.machines) :
       /\ machines[i].status # pre.machines[i].status
       /\ machines[i].throughput # pre.machines[i].throughput
  /\ \E i \in 1..Len(pre.machines) :
       \A k \in 1..Len(lastOp.data) : lastOp.data[k].id # pre.machines[i].id
  /\ Len(connections) > 0
  /\ selectedMachineId # Null

\* C10: updateMachine, updateMachineStatus, updateMachineThroughput and
\* deleteMachine with the id of no machine, and deleteConnection with the id
\* of no connection, leave machines, connections and selection as they were.
C10_AbsentIdNoOp ==
  /\ (/\ lastOp.op \in {"updateMachine", "updateMachineStatus",
                        "updateMachineThroughput", "deleteMachine"}
      /\ lastOp.id \notin IdSet(pre.machines)
      => Snapshot = pre)
  /\ (Did("deleteConnection") /\ lastOp.id \notin ConnIdSet(pre.connections)
      => Snapshot = pre)

\* C11: updateMachine(id, partial) gives every machine with that id exactly
\* the partial's values for the partial's fields and leaves its other fields,
\* every other machine, the connections and the selection as they were.
C11_UpdateMachineFrame ==
  Did("updateMachine") =>
    /\ Len(machines) = Len(pre.machines)
    /\ \A i \in 1..Len(pre.machines) :
         IF pre.machines[i].id = lastOp.id
         THEN /\ DOMAIN machines[i] = (DOMAIN pre.machines[i]) \cup (DOMAIN lastOp.updates)
              /\ \A f \in DOMAIN lastOp.updates : machines[i][f] = lastOp.updates[f]
              /\ \A f \in (DOMAIN pre.machines[i]) \ (DOMAIN lastOp.updates) :
                   machines[i][f] = pre.machines[i][f]
         ELSE machines[i] = pre.machines[i]
    /\ connections = pre.connections
    /\ selectedMachineId = pre.selectedMachineId

\* several fields of an existing machine were changed by one updateMachine
\* call in a store with other machines, connections and a selection
C11_Witness ==
  /\ Did("updateMachine")
  /\ Cardinality(DOMAIN lastOp.updates) > 1
  /\ \E i \in 1..Len(pre.machines) :
       /\ pre.machines[i].id = lastOp.id
       /\ machines[i].name # pre.machines[i].name
       /\ machines[i].throughput # pre.machines[i].throughput
  /\ Len(machines) > 1
  /\ Len(connections) > 0
  /\ selectedMachineId # Null

\* C12: a machine keeps its id: an operation other than deleteMachine and
\* loadInitialData leaves the id of every machine of the store as it was.
C12_IdImmutable ==
  lastOp.op \notin {"create", "deleteMachine", "loadInitialData"} =>
    /\ Len(machines) >= Len(pre.machines)
    /\ \A i \in 1..Len(pre.machines) : machines[i].id = pre.machines[i].id

\* C13: updateMachineStatus(id, s) gives the store updateMachine(id, {status: s})
\* gives, updateMachineThroughput(id, v) the store updateMachine(id, {throughput: v})
\* gives, and updateMachineStatus leaves every throughput as it was.
C13_HelpersEqualUpdateMachine ==
  /\ (Did("updateMachineStatus") =>
        /\ machines = updateMachineList(pre.machines, lastOp.id, [status |-> lastOp.status])
        /\ \A i \in 1..Len(pre.machines) :
             machines[i].throughput = pre.machines[i].throughput
        /\ connections = pre.connections
        /\ selectedMachineId = pre.selectedMachineId)
  /\ (Did("updateMachineThroughput") =>
        /\ machines = updateMachineList(pre.machines, lastOp.id,
                                        [throughput |-> lastOp.throughput])
        /\ connections = pre.connections
        /\ selectedMachineId = pre.selectedMachineId)

\* updateMachineStatus changed the status of a machine with a positive
\* throughput to stopped
C13_Witness ==
  /\ Did("updateMachineStatus")
  /\ lastOp.status = "stopped"
  /\ \E i \in 1..Len(pre.machines) :
       /\ pre.machines[i].id = lastOp.id
       /\ pre.machines[i].status = "active"
       /\ machines[i].status = "stopped"
       /\ machines[i].throughput > 0

C15_AddMachineFrame ==
  Did("addMachine") =>
    /\ Len(machines) = Len(pre.machines) + 1
    /\ SubSeq(machines, 1, Len(pre.machines)) = pre.machines
    /\ DOMAIN machines[Len(machines)] = (DOMAIN lastOp.machine) \cup {"id"}
    /\ \A f \in DOMAIN lastOp.machine : machines[Len(machines)][f] = lastOp.machine[f]
    /\ machines[Len(machines)].id = lastOp.id
    /\ connections = pre.connections
    /\ selectedMachineId = pre.selectedMachineId

\* a machine with a negative throughput was added to a store with machines,
\* connections and a selection
C15_Witness ==
  /\ Did("addMachine")
  /\ lastOp.machine.throughput < 0
  /\ machines[Len(machines)].throughput < 0
  /\ Len(pre.machines) > 0
  /\ Len(connections) > 0
  /\ selectedMachineId # Null

\* C16 as stated: a simulator tick on a store in which every machine's
\* throughput is >= 0 leaves every machine's throughput >= 0.
C16_ThroughputFloor ==
  (/\ Did("simulateStep")
   /\ \A i \in 1..Len(pre.machines) : pre.machines[i].throughput >= 0)
  => \A i \in 1..Len(machines) : machines[i].throughput >= 0

\* C17: when a tick draws stopped or maintenance for a machine, the store
\* after that machine's processing has the machine with the drawn status and
\* throughput 0.
C17_StoppedMeansZero ==
  Did("simulateStep") =>
    \A i \in 1..Len(lastOp.snap) :
      (/\ drawsStatus(lastOp.ch[i].draw)
       /\ generateRandomStatus(lastOp.ch[i].status) \in {"stopped", "maintenance"})
      => \A j \in 1..Len(lastOp.trace[i]) :
           lastOp.trace[i][j].id = lastOp.snap[i].id =>
             /\ lastOp.trace[i][j].status = generateRandomStatus(lastOp.ch[i].status)
             /\ lastOp.trace[i][j].throughput = 0

\* a tick drew stopped or maintenance for a machine that was active with a
\* positive throughput, in the closure and in the store
C17_Witness ==
  /\ Did("simulateStep")
  /\ \E i \in 1..Len(lastOp.snap) :
       /\ drawsStatus(lastOp.ch[i].draw)
       /\ generateRandomStatus(lastOp.ch[i].status) \in {"stopped", "maintenance"}
       /\ lastOp.snap[i].status = "active"
       /\ lastOp.snap[i].throughput > 0
       /\ \E j \in 1..Len(pre.machines) :
            /\ pre.machines[j].id = lastOp.snap[i].id
            /\ pre.machines[j].status = "active"
            /\ pre.machines[j].throughput > 0
            /\ machines[j].throughput = 0

\* C18: at most one simulator timer is set at any time and none when the
\* simulator is stopped, so a tick fires only from the timer of the running
\* simulator; startSimulation on a running simulator and stopSimulation on a
\* stopped one change nothing.
C18_SingleTimer ==
  /\ Cardinality(simTimers) <= 1
  /\ (intervalRef = 0 => simTimers = {})
  /\ (intervalRef # 0 => simTimers = {intervalRef})
  /\ (isSimulating <=> intervalRef # 0)
  /\ (Did("simulateStep") => lastOp.timer = intervalRef)
  /\ (Did("startSimulation") /\ lastOp.was.intervalRef # 0 =>
        /\ SimState = lastOp.was
        /\ Snapshot = pre)
  /\ (Did("stopSimulation") =>
        /\ simTimers = {}
        /\ (lastOp.was.intervalRef = 0 => SimState = lastOp.was))

\* startSimulation was called on a running simulator that had been stopped
\* and started again
C18_Witness ==
  /\ Did("startSimulation")
  /\ lastOp.was.intervalRef > 1
  /\ Cardinality(simTimers) = 1

\* C19: reconnects of the push adapter are scheduled one at a time (at most
\* one socket or one pending reconnect timer exists); a connection loss with
\* budget left schedules one reconnect; at most maxReconnectAttempts
\* reconnections are made without a successful open in between and an open
\* resets the count; once the adapter has given up it has no socket and no
\* pending reconnect, so only an external connect() makes a connection.
C19_BoundedReconnect ==
  /\ wsTimers + Cardinality(LiveSockets) <= 1
  /\ reconnectAttempts <= maxReconnectAttempts
  /\ wsReconnectsMade <= maxReconnectAttempts
  /\ wsReconnectsMade <= reconnectAttempts
  /\ (Did("onclose") /\ lastOp.was.reconnectAttempts < maxReconnectAttempts =>
        /\ wsTimers = 1
        /\ reconnectAttempts = lastOp.was.reconnectAttempts + 1)
  /\ (Did("onopen") => reconnectAttempts = 0 /\ wsReconnectsMade = 0)
  /\ (wsGaveUp =>
        /\ reconnectAttempts = maxReconnectAttempts
        /\ wsTimers = 0
        /\ LiveSockets = {})

\* the adapter gave up after maxReconnectAttempts reconnections none of
\* which opened
C19_Witness ==
  /\ Did("onclose")
  /\ wsGaveUp
  /\ wsReconnectsMade = maxReconnectAttempts
  /\ Len(wsSockets) = maxReconnectAttempts + 1

\* C20: start() dispatches one fetch and sets the interval timer; each firing
\* of the timer dispatches one fetch; a failed fetch calls the error callback
\* once and the data callback not at all, leaves the store alone and leaves
\* the timer set, so that while the poller is not stopped its timer can fire;
\* stop() clears the timer that start() set.
C20_PollingLoop ==
  /\ (Did("start") =>
        /\ pollDispatched = lastOp.was.pollDispatched + 1
        /\ pollDispatched \in pollInFlight
        /\ intervalId \in pollTimers \ lastOp.was.pollTimers)
  /\ (Did("pollTimer") =>
        /\ pollDispatched = lastOp.was.pollDispatched + 1
        /\ pollDispatched \in pollInFlight
        /\ pollTimers = lastOp.was.pollTimers)
  /\ (Did("fetchDataRejected") =>
        /\ errorCalls = lastOp.was.errorCalls + 1
        /\ dataCalls = lastOp.was.dataCalls
        /\ pollTimers = lastOp.was.pollTimers
        /\ intervalId = lastOp.was.intervalId
        /\ pollDispatched = lastOp.was.pollDispatched
        /\ Snapshot = pre)
  /\ (Did("start") /\ lastOp.was.pollTimers = {} => pollTimers = {intervalId})
  /\ (Did("stop") =>
        /\ lastOp.was.intervalId \notin pollTimers
        /\ (lastOp.was.pollTimers \subseteq {lastOp.was.intervalId} => pollTimers = {}))
  /\ (intervalId # 0 => intervalId \in pollTimers)

\* the timer fired and dispatched a fetch after two fetches had failed
C20_Witness ==
  /\ Did("pollTimer")
  /\ lastOp.was.errorCalls = 2
  /\ lastOp.was.dataCalls = 0
  /\ lastOp.timer = intervalId

\* C21 as stated: once stop() has returned the poller dispatches no fetch:
\* while the poller is stopped none of its interval timers is set, and no
\* interval timer dispatches a fetch on a stopped poller.
C21_NoFetchAfterStop ==
  /\ (intervalId = 0 => pollTimers = {})
  /\ (Did("pollTimer") => lastOp.was.intervalId # 0)

\* C22 as stated: a malformed payload delivered by a transport leaves the
\* store unchanged.
C22_MalformedDropped ==
  /\ (Did("fetchDataResolved") /\ Malformed(lastOp.data) => Snapshot = pre)
  /\ (Did("onmessage") /\ (JSONparseThrows(lastOp.text) \/ Malformed(JSONparse(lastOp.text)))
        => Snapshot = pre)

\* C23 as stated: the result of a fetch that arrives after stop(), when no
\* timer of the poller is set, is not applied to the store.
C23_NoApplyAfterStop ==
  (/\ Did("fetchDataResolved")
   /\ lastOp.was.intervalId = 0
   /\ lastOp.was.pollTimers = {})
  => Snapshot = pre

\* C30 as stated: after disconnect() the adapter opens no new connection and
\* receives no message, the close of the disconnected socket schedules no
\* reconnect, and a reconnect timer pending at disconnect() does not connect.
C30_DisconnectIsFinal ==
  /\ (Did("reconnectTimer") => ~lastOp.was.disconnected)
  /\ (Did("onmessage") => ~lastOp.was.disconnected)
  /\ (Did("onclose") /\ lastOp.was.disconnected => wsTimers = lastOp.was.wsTimers)

\* C24: after any sequence of updateMachine, updateMachineStatus,
\* updateMachineThroughput and batchUpdateFromProductionData calls (between
\* loads, additions and deletions), every field of every machine holds the
\* value the last call that wrote that field wrote, and a field no call wrote
\* holds the value the machine was created with.
C24_LastWriterWins == machines = written

\* a machine whose status was last written by updateMachine and whose
\* throughput was written by updateMachine and then by updateMachineThroughput
C24_Witness ==
  /\ Did("updateMachineThroughput")
  /\ \E i \in 1..Len(machines) :
       /\ machines[i].id = lastOp.id
       /\ pre.machines[i].status = "idle"
       /\ pre.machines[i].throughput = 80
       /\ machines[i].status = "idle"
       /\ machines[i].throughput = 55

\* the store before a tick processes the i-th machine of its closure
BeforeMachine(i) == IF i = 1 THEN pre.machines ELSE lastOp.trace[i - 1]

\* C25 as stated: in a tick, a machine whose status in the store after the
\* tick's status change is active has its throughput perturbed, to
\* max(0, throughput in the store + delta), and a machine whose status in the
\* store is not active is not perturbed: its throughput is left alone, or set
\* to 0 or to the idle value by a status the tick drew.
C25_PerturbIffActive ==
  Did("simulateStep") =>
    \A i \in 1..Len(lastOp.snap) :
      \A j \in 1..Len(lastOp.trace[i]) :
        lastOp.trace[i][j].id = lastOp.snap[i].id =>
          IF lastOp.trace[i][j].status = "active"
          THEN lastOp.trace[i][j].throughput =
                 newThroughput(BeforeMachine(i)[j].throughput,
                               fluctuation(lastOp.ch[i].fluct))
          ELSE lastOp.trace[i][j].throughput \in
                 { BeforeMachine(i)[j].throughput, 0,
                   idleThroughput(BeforeMachine(i)[j].throughput) }

\* C26 as stated: a tick processes exactly the machines that are in the
\* store when it fires, each once.
C26_TickProcessesStoreMachines ==
  Did("simulateStep") => IdsOf(lastOp.snap) = IdsOf(pre.machines)

\* C27 as stated: when a tick draws idle for a machine, the machine's
\* throughput after its processing is floor(0.3 * p), p being its throughput
\* in the store just before.
C27_IdleScalesStoreThroughput ==
  Did("simulateStep") =>
    \A i \in 1..Len(lastOp.snap) :
      (/\ drawsStatus(lastOp.ch[i].draw)
       /\ generateRandomStatus(lastOp.ch[i].status) = "idle")
      => \A j \in 1..Len(lastOp.trace[i]) :
           lastOp.trace[i][j].id = lastOp.snap[i].id =>
             lastOp.trace[i][j].throughput =
               idleThroughput(BeforeMachine(i)[j].throughput)

\* C28 as stated: the delta a tick adds to an active machine's throughput
\* lies in -A..A, its negation is a possible delta too, and the value stored
\* is max(0, prior + delta), prior being the throughput the tick read.
C28_DeltaSymmetric ==
  Did("simulateStep") =>
    \A i \in 1..Len(lastOp.snap) :
      (/\ lastOp.snap[i].status = "active"
       /\ ~(drawsStatus(lastOp.ch[i].draw)
            /\ generateRandomStatus(lastOp.ch[i].status) # "active"))
      => LET d == fluctuation(lastOp.ch[i].fluct)
         IN  /\ -fluctuationRange <= d
             /\ d <= fluctuationRange
             /\ \A j \in 1..Len(lastOp.trace[i]) :
                  lastOp.trace[i][j].id = lastOp.snap[i].id =>
                    lastOp.trace[i][j].throughput =
                      IF lastOp.snap[i].throughput + d > 0
                      THEN lastOp.snap[i].throughput + d ELSE 0
             /\ \E r \in AllRands : fluctuation(r) = -d

\* C29 as stated: with the simulator as the only source of mutations on the
\* initial data set, every machine whose status is stopped or maintenance
\* has throughput 0, after any number of ticks.
C29_StoppedHasNoThroughput ==
  \A i \in 1..Len(machines) :
    machines[i].status \in {"stopped", "maintenance"} => machines[i].throughput = 0

\* C31 as stated: an adapter restarted by an external connect() has a full
\* retry budget: whenever it gives up, it has scheduled at least
\* maxReconnectAttempts reconnects since that connect().
C31_RestartRestoresBudget ==
  wsGaveUp => wsScheduled >= maxReconnectAttempts

\* C32 as stated: the responses of the poller's fetches are applied to the
\* store in the order the fetches were dispatched.
C32_AppliedInDispatchOrder ==
  \A a, b \in 1..Len(pollApplied) : a < b => pollApplied[a] < pollApplied[b]

\* C33: a simulator tick leaves the list of machines as long as it was, with
\* every machine's id, name, type, position and description (and its set of
\* fields) as before, so it creates and removes no machine, and it leaves
\* the connections and the selection as they were.
C33_TickFrame ==
  Did("simulateStep") =>
    /\ connections = pre.connections
    /\ selectedMachineId = pre.selectedMachineId
    /\ Len(machines) = Len(pre.machines)
    /\ \A i \in 1..Len(machines) : SameIdentityFields(machines[i], pre.machines[i])

\* a tick whose closure holds an active machine deleted since the start
\* changed a machine of a store that has connections
C33_Witness ==
  /\ Did("simulateStep")
  /\ \E i \in 1..Len(lastOp.snap) :
       /\ lastOp.snap[i].id \notin IdSet(pre.machines)
       /\ lastOp.snap[i].status = "active"
  /\ machines # pre.machines
  /\ connections # <<>>

\* C34 as stated: every throughput a tick writes by idle scaling or by
\* perturbation is computed from the machine's throughput in the store just
\* before the tick processes the machine.
C34_WritesFromStoreThroughput ==
  Did("simulateStep") =>
    \A i \in 1..Len(lastOp.snap) :
      \A j \in 1..Len(lastOp.trace[i]) :
        lastOp.trace[i][j].id = lastOp.snap[i].id =>
          LET drawn == IF drawsStatus(lastOp.ch[i].draw)
                       THEN generateRandomStatus(lastOp.ch[i].status)
                       ELSE "none"
              p == BeforeMachine(i)[j].throughput
          IN  /\ (drawn = "idle" => lastOp.trace[i][j].throughput = idleThroughput(p))
              /\ (drawn \in {"none", "active"} /\ lastOp.snap[i].status = "active" =>
                    lastOp.trace[i][j].throughput =
                      newThroughput(p, fluctuation(lastOp.ch[i].fluct)))

\* the indexes of the records of the batch with the id
RecordsWith(data, id) == {k \in 1..Len(data) : data[k].id = id}

\* C35: after a batch with several records for the id of a machine, the
\* machine has the status and the throughput of the first of these records,
\* whatever the later ones say.
C35_FirstDuplicateWins ==
  Did("batchUpdateFromProductionData") =>
    \A i \in 1..Len(pre.machines) :
      Cardinality(RecordsWith(lastOp.data, pre.machines[i].id)) >= 2 =>
        \E k \in RecordsWith(lastOp.data, pre.machines[i].id) :
          /\ \A j \in RecordsWith(lastOp.data, pre.machines[i].id) : k <= j
          /\ machines[i].status = lastOp.data[k].status
          /\ machines[i].throughput = lastOp.data[k].throughput

\* a batch with two records for a machine, which differ in status and in
\* throughput from each other and from the machine, was applied
C35_Witness ==
  /\ Did("batchUpdateFromProductionData")
  /\ \E i \in 1..Len(pre.machines) :
       \E k, j \in RecordsWith(lastOp.data, pre.machines[i].id) :
         /\ k < j
         /\ lastOp.data[k].status # lastOp.data[j].status
         /\ lastOp.data[k].throughput # lastOp.data[j].throughput
         /\ pre.machines[i].status # lastOp.data[k].status
         /\ pre.machines[i].throughput # lastOp.data[k].throughput
         /\ machines[i].status = lastOp.data[k].status
         /\ machines[i].throughput = lastOp.data[k].throughput

\* C36: after loadInitialData the machines and the connections are the fixed
\* 8 machines and 7 connections whatever they were before, a load on a
\* loaded store changes nothing, the machine ids are pairwise distinct, every
\* connection joins two different loaded machines, and no ordered pair is
\* connected twice.
C36_LoadInitialData ==
  Did("loadInitialData") =>
    /\ machines = initialMachines
    /\ connections = initialConnections
    /\ Len(machines) = 8
    /\ Len(connections) = 7
    /\ (pre.machines = initialMachines /\ pre.connections = initialConnections =>
          Snapshot = pre)
    /\ \A a, b \in 1..Len(machines) : machines[a].id = machines[b].id => a = b
    /\ \A c \in 1..Len(connections) :
         /\ connections[c].fromMachineId \in IdSet(machines)
         /\ connections[c].toMachineId \in IdSet(machines)
         /\ connections[c].fromMachineId # connections[c].toMachineId
    /\ \A c, e \in 1..Len(connections) :
         (/\ connections[c].fromMachineId = connections[e].fromMachineId
          /\ connections[c].toMachineId = connections[e].toMachineId) => c = e

\* loadInitialData ran on a store whose machines and connections were
\* neither empty nor the initial ones
C36_Witness ==
  /\ Did("loadInitialData")
  /\ pre.machines # <<>>
  /\ pre.connections # <<>>
  /\ pre.machines # initialMachines
  /\ pre.connections # initialConnections
====
